---- MODULE Spec2Model ----
(***************************************************************************)
(* Schema evolution engine of src/contributions: the versioned schema      *)
(* store, the schema differ and generator (update_schema.py), the PR       *)
(* regeneration entry point (regenerate_pr_schema.py), the submission      *)
(* validator and the issue-body extractor (schema.py).                     *)
(*                                                                         *)
(* A tag name is a sequence of one-character strings.  A tag registry is   *)
(* an insertion-ordered dict: a sequence of [name, type] records with      *)
(* distinct names.  A JSON object whose key order matters (the generated   *)
(* tags.properties) is a sequence of [name, schema] records.               *)
(***************************************************************************)
EXTENDS Integers, Sequences, FiniteSets, TLC

VARIABLES
  store,   \* schema directory: version number -> file content
  writes,  \* history: version number -> how many runs wrote that file (capped at 2)
  last,    \* the last completed run of an entry point and what it returned
  procs,   \* the in-flight runs of the concurrent specification
  call     \* the input and the output of a pure function under check

vars == <<store, writes, last, procs, call>>

\* ------------------------------------------------------------------ bounds

MaxVersion == 3
MaxTarget == 4
MaxNameLen == 2
MaxLines == 5

\* ------------------------------------------------------------ tag names

NameA == <<"a">>
NameB == <<"b", "_", "2">>
RunNames == {NameA, NameB}

CharCode ==
  [c \in {"\n", "-", "0", "2", "A", "_", "a", "b", "z"} |->
     CASE c = "\n" -> 10 [] c = "-" -> 45 [] c = "0" -> 48 [] c = "2" -> 50
       [] c = "A" -> 65 [] c = "_" -> 95 [] c = "a" -> 97 [] c = "b" -> 98
       [] c = "z" -> 122]

\* Python's str "<": lexicographic by code point, a proper prefix first.
RECURSIVE StrLess(_, _)
StrLess(s, t) ==
  IF t = <<>> THEN FALSE
  ELSE IF s = <<>> THEN TRUE
  ELSE IF CharCode[Head(s)] # CharCode[Head(t)]
       THEN CharCode[Head(s)] < CharCode[Head(t)]
  ELSE StrLess(Tail(s), Tail(t))

\* --------------------------------------------------------- tag registries

TypeNames == {"string", "integer", "number", "boolean", "null", "array", "object"}
RunTypes == {"string"}

RegistryNames(reg) == {reg[i].name : i \in DOMAIN reg}

\* The registries over the given names and type names, in every insertion order.
Registries(names, types) ==
  {r \in UNION {[1..n -> [name : names, type : types]] : n \in 0..Cardinality(names)} :
     \A i, j \in DOMAIN r : i # j => r[i].name # r[j].name}

\* ------------------------------------------------------ schema documents

TagScalarRef == [ref |-> "#/$defs/tagScalar"]
TagValueRef == [ref |-> "#/$defs/tagValue"]
NamePattern == "^[a-z][a-z0-9_]{0,63}$"

\* dict.get(key, {}) on a JSON object modelled as a record.
Get(obj, key) == IF key \in DOMAIN obj THEN obj[key] ELSE <<>>

PropertyNames(props) == {props[i].name : i \in DOMAIN props}

get_existing_tag_definitions(schema) ==
  Get(Get(Get(schema, "properties"), "tags"), "properties")

type_name_to_json_schema(type_name) ==
  CASE type_name = "string" -> [type |-> "string"]
    [] type_name = "integer" -> [type |-> "integer"]
    [] type_name = "number" -> [type |-> "number"]
    [] type_name = "boolean" -> [type |-> "boolean"]
    [] type_name = "null" -> [type |-> "null"]
    [] type_name = "array" -> [type |-> "array", items |-> TagScalarRef]
    [] type_name = "object" -> [type |-> "object", additionalProperties |-> TagScalarRef]
    [] OTHER -> TagValueRef

\* sorted(tag_registry.items()): insertion sort by name (names are distinct).
RECURSIVE InsertItem(_, _)
InsertItem(item, sorted) ==
  IF sorted = <<>> THEN <<item>>
  ELSE IF StrLess(item.name, Head(sorted).name) THEN <<item>> \o sorted
  ELSE <<Head(sorted)>> \o InsertItem(item, Tail(sorted))

RECURSIVE SortedItems(_)
SortedItems(reg) ==
  IF reg = <<>> THEN <<>> ELSE InsertItem(Head(reg), SortedItems(Tail(reg)))

\* Mutant: the loop stops one item short.
TagProperties_drops_last(tag_registry) ==
  LET items == SortedItems(tag_registry)
  IN [i \in 1..(Len(items) - 1) |->
        [name |-> items[i].name, schema |-> type_name_to_json_schema(items[i].type)]]

\* The loop of generate_new_schema building tag_properties.
TagProperties(tag_registry) ==
  LET items == SortedItems(tag_registry)
  IN [i \in DOMAIN items |->
        [name |-> items[i].name, schema |-> type_name_to_json_schema(items[i].type)]]

\* Mutant: undeclared tags are held to the scalar definition.
GeneratedTags_scalar_only(tag_registry) ==
  [type |-> "object",
   propertyNames |-> [type |-> "string", pattern |-> NamePattern],
   properties |-> TagProperties(tag_registry),
   additionalProperties |-> TagScalarRef]

GeneratedTags(tag_registry) ==
  [type |-> "object",
   propertyNames |-> [type |-> "string", pattern |-> NamePattern],
   properties |-> TagProperties(tag_registry),
   additionalProperties |-> TagValueRef]

\* f"PlaneQuery Aircraft Community Submission (v{new_version})"
Title(version) == [text |-> "PlaneQuery Aircraft Community Submission", v |-> version]

\* Mutant: the new tag properties are merged into the base's instead of
\* replacing them.
generate_new_schema_merges(base_schema, tag_registry, new_version) ==
  LET old == get_existing_tag_definitions(base_schema)
      new == TagProperties(tag_registry)
      kept == SelectSeq(old, LAMBDA e : e.name \notin RegistryNames(tag_registry))
  IN [base_schema EXCEPT
        !.title = Title(new_version),
        !.properties = [base_schema.properties EXCEPT
                          !.tags = [GeneratedTags(tag_registry) EXCEPT
                                      !.properties = kept \o new]]]

\* The deep copy of the base with the title and properties.tags replaced.  No
\* check of new_version is made.
generate_new_schema(base_schema, tag_registry, new_version) ==
  [base_schema EXCEPT
     !.title = Title(new_version),
     !.properties = [base_schema.properties EXCEPT !.tags = GeneratedTags(tag_registry)]]

\* The registry's tags, in registry order, that the schema does not declare.
check_for_new_tags(tag_registry, current_schema) ==
  LET existing_tags == PropertyNames(get_existing_tag_definitions(current_schema))
  IN SelectSeq([i \in DOMAIN tag_registry |-> tag_registry[i].name],
               LAMBDA tag : tag \notin existing_tags)

\* ---------------------------------------------------------- schema store

\* $defs of the bootstrap document: tagScalar is any scalar; tagValue is a
\* scalar, an array of scalars or an object of scalars.
SchemaDefs ==
  [tagScalar |-> [anyOf |-> <<[type |-> "string"], [type |-> "number"],
                              [type |-> "integer"], [type |-> "boolean"],
                              [type |-> "null"]>>],
   tagValue |-> [anyOf |-> <<TagScalarRef,
                             [type |-> "array", items |-> TagScalarRef],
                             [type |-> "object", additionalProperties |-> TagScalarRef]>>]]

\* The bootstrap document, version 1: it declares no tag.
SchemaV1 ==
  [title |-> Title(1),
   properties |->
     [tags |-> [type |-> "object",
                propertyNames |-> [type |-> "string", pattern |-> NamePattern],
                additionalProperties |-> TagValueRef]],
   defs |-> SchemaDefs]

\* A schema file: the document and whether a newline follows it.
File(schema, eol) == [schema |-> schema, eol |-> eol]

InitStore == [v \in {1} |-> File(SchemaV1, TRUE)]

Max(S) == CHOOSE m \in S : \A x \in S : x <= m

get_latest_schema_version(st) == Max(DOMAIN st)

\* schema.py's load_schema(): always the file at SCHEMA_PATH, version 1.
load_schema(st) == st[1].schema

\* The load of one version that update_schema.py calls.
load_schema_version(st, version) == st[version].schema

\* open(path, "w") and json.dump: the file is created or replaced.
write_file(st, version, file) ==
  [v \in DOMAIN st \cup {version} |-> IF v = version THEN file ELSE st[v]]

NoneRet == [is_none |-> TRUE, value |-> 0]
SomeRet(v) == [is_none |-> FALSE, value |-> v]
\* Python truthiness of an int-or-None.
Truthy(ret) == ~ret.is_none /\ ret.value # 0

\* ------------------------------------------------- update_schema.py runs

\* Mutant: the new version number skips one.
update_plan_skips_version(st, tag_registry, check_only) ==
  LET current_version == get_latest_schema_version(st)
      current_schema == load_schema_version(st, current_version)
      new_tags == check_for_new_tags(tag_registry, current_schema)
      new_version == current_version + 2
  IN IF new_tags = <<>> \/ check_only \/ new_version > MaxVersion
       THEN [write |-> FALSE, version |-> 0, file |-> File(current_schema, TRUE),
             ret |-> IF new_tags = <<>> THEN NoneRet ELSE SomeRet(current_version + 1),
             new_tags |-> new_tags, current_version |-> current_version]
     ELSE [write |-> TRUE, version |-> new_version,
           file |-> File(generate_new_schema(current_schema, tag_registry, new_version), TRUE),
           ret |-> SomeRet(new_version), new_tags |-> new_tags,
           current_version |-> current_version]

\* Mutant: check_only is tested after the write instead of before it.
update_plan_check_writes(st, tag_registry, check_only) ==
  LET current_version == get_latest_schema_version(st)
      current_schema == load_schema_version(st, current_version)
      new_tags == check_for_new_tags(tag_registry, current_schema)
      new_version == current_version + 1
  IN IF new_tags = <<>>
       THEN [write |-> FALSE, version |-> 0, file |-> File(current_schema, TRUE),
             ret |-> NoneRet, new_tags |-> <<>>, current_version |-> current_version]
     ELSE [write |-> TRUE, version |-> new_version,
           file |-> File(generate_new_schema(current_schema, tag_registry, new_version), TRUE),
           ret |-> SomeRet(new_version), new_tags |-> new_tags,
           current_version |-> current_version]

\* create_new_schema_version up to the point where it opens the new file.
update_plan(st, tag_registry, check_only) ==
  LET current_version == get_latest_schema_version(st)
      current_schema == load_schema_version(st, current_version)
      new_tags == check_for_new_tags(tag_registry, current_schema)
      new_version == current_version + 1
  IN IF new_tags = <<>>
       THEN [write |-> FALSE, version |-> 0, file |-> File(current_schema, TRUE),
             ret |-> NoneRet, new_tags |-> <<>>, current_version |-> current_version]
     ELSE IF check_only
       THEN [write |-> FALSE, version |-> 0, file |-> File(current_schema, TRUE),
             ret |-> SomeRet(current_version + 1), new_tags |-> new_tags,
             current_version |-> current_version]
     ELSE [write |-> TRUE, version |-> new_version,
           file |-> File(generate_new_schema(current_schema, tag_registry, new_version), TRUE),
           ret |-> SomeRet(new_version), new_tags |-> new_tags,
           current_version |-> current_version]

create_new_schema_version(st, tag_registry, check_only) ==
  LET plan == update_plan(st, tag_registry, check_only)
  IN [store |-> IF plan.write THEN write_file(st, plan.version, plan.file) ELSE st,
      ret |-> plan.ret, new_tags |-> plan.new_tags]

\* The exit status of update_schema.py's main: sys.exit(1) or sys.exit(0) under
\* --check, a normal return otherwise.
update_exit(ret, check_only) == IF check_only /\ Truthy(ret) THEN 1 ELSE 0

\* --------------------------------------------- regenerate_pr_schema.py run

\* main up to the point where it opens the new file.  has_submissions is
\* whether read_all_submissions() returned anything.
regen_plan(st, has_submissions, tag_registry) ==
  LET current_version == get_latest_schema_version(st)
      current_schema == load_schema(st)
      new_tags == check_for_new_tags(tag_registry, current_schema)
      new_version == current_version + 1
  IN IF ~has_submissions \/ new_tags = <<>>
       THEN [write |-> FALSE, version |-> 0, file |-> File(current_schema, FALSE),
             ret |-> NoneRet, new_tags |-> <<>>, current_version |-> current_version]
     ELSE [write |-> TRUE, version |-> new_version,
           file |-> File(generate_new_schema(current_schema, tag_registry, new_version), FALSE),
           ret |-> NoneRet, new_tags |-> new_tags, current_version |-> current_version]

regenerate_main(st, has_submissions, tag_registry) ==
  LET plan == regen_plan(st, has_submissions, tag_registry)
  IN [store |-> IF plan.write THEN write_file(st, plan.version, plan.file) ELSE st,
      new_tags |-> plan.new_tags]

\* ------------------------------------------------------------------ state

RunRegistries == Registries(RunNames, RunTypes)

NoRun ==
  [op |-> "none", check_only |-> FALSE, reg |-> <<>>, latest_before |-> 0,
   ret |-> NoneRet, new_tags |-> <<>>, exit |-> 0, wrote |-> FALSE]

Procs == {"p1", "p2"}
Idle == [pc |-> "idle", op |-> "none", reg |-> <<>>, plan |-> <<>>]

NoCall == [fn |-> "none"]

Init ==
  /\ store = InitStore
  /\ writes = [v \in 1..MaxVersion + 1 |-> 0]
  /\ last = NoRun
  /\ procs = [p \in Procs |-> Idle]
  /\ call = NoCall

Bump(w, version) == [w EXCEPT ![version] = IF w[version] = 0 THEN 1 ELSE 2]

\* One whole run of python -m src.contributions.update_schema [--check].
UpdateRun ==
  \E tag_registry \in RunRegistries, check_only \in BOOLEAN :
    LET plan == update_plan(store, tag_registry, check_only)
        run == create_new_schema_version(store, tag_registry, check_only)
    IN /\ plan.write => plan.version <= MaxVersion
       /\ store' = run.store
       /\ writes' = IF plan.write THEN Bump(writes, plan.version) ELSE writes
       /\ last' = [op |-> "update", check_only |-> check_only, reg |-> tag_registry,
                   latest_before |-> plan.current_version, ret |-> run.ret,
                   new_tags |-> run.new_tags, exit |-> update_exit(run.ret, check_only),
                   wrote |-> plan.write]
       /\ UNCHANGED <<procs, call>>

\* One whole run of python -m src.contributions.regenerate_pr_schema.
RegenRun ==
  \E tag_registry \in RunRegistries, has_submissions \in BOOLEAN :
    LET plan == regen_plan(store, has_submissions, tag_registry)
        run == regenerate_main(store, has_submissions, tag_registry)
    IN /\ ~has_submissions => tag_registry = <<>>
       /\ plan.write => plan.version <= MaxVersion
       /\ store' = run.store
       /\ writes' = IF plan.write THEN Bump(writes, plan.version) ELSE writes
       /\ last' = [op |-> "regen", check_only |-> FALSE, reg |-> tag_registry,
                   latest_before |-> plan.current_version, ret |-> NoneRet,
                   new_tags |-> run.new_tags, exit |-> 0, wrote |-> plan.write]
       /\ UNCHANGED <<procs, call>>

Next == UpdateRun \/ RegenRun

Spec == Init /\ [][Next]_vars

\* ------------------------------------------------- concurrent invocations
\* Two invocations at a time.  A run reads the directory and the schema, then
\* (another run's steps may come in between) opens and writes the new file.

Completed(op, check_only, tag_registry, plan) ==
  [op |-> op, check_only |-> check_only, reg |-> tag_registry,
   latest_before |-> plan.current_version,
   ret |-> IF op = "update" THEN plan.ret ELSE NoneRet,
   new_tags |-> plan.new_tags,
   exit |-> IF op = "update" THEN update_exit(plan.ret, check_only) ELSE 0,
   wrote |-> plan.write]

Started(p, op, tag_registry, check_only, plan) ==
  IF plan.write
    THEN /\ plan.version <= MaxVersion
         /\ procs' = [procs EXCEPT ![p] = [pc |-> "write", op |-> op,
                                            reg |-> tag_registry, plan |-> plan]]
         /\ UNCHANGED <<store, writes, last, call>>
    ELSE /\ last' = Completed(op, check_only, tag_registry, plan)
         /\ UNCHANGED <<store, writes, procs, call>>

\* update_schema.py, create_new_schema_version lines 106-121.
BeginUpdate(p) ==
  /\ procs[p].pc = "idle"
  /\ \E tag_registry \in RunRegistries, check_only \in BOOLEAN :
        Started(p, "update", tag_registry, check_only,
                update_plan(store, tag_registry, check_only))

\* regenerate_pr_schema.py, main lines 29-55.
BeginRegen(p) ==
  /\ procs[p].pc = "idle"
  /\ \E tag_registry \in RunRegistries, has_submissions \in BOOLEAN :
        /\ ~has_submissions => tag_registry = <<>>
        /\ Started(p, "regen", tag_registry, FALSE,
                   regen_plan(store, has_submissions, tag_registry))

\* The open(..., "w") and json.dump of either entry point.
WriteNewSchema(p) ==
  /\ procs[p].pc = "write"
  /\ store' = write_file(store, procs[p].plan.version, procs[p].plan.file)
  /\ writes' = Bump(writes, procs[p].plan.version)
  /\ last' = Completed(procs[p].op, FALSE, procs[p].reg, procs[p].plan)
  /\ procs' = [procs EXCEPT ![p] = Idle]
  /\ UNCHANGED call

NextConc == \E p \in Procs : BeginUpdate(p) \/ BeginRegen(p) \/ WriteNewSchema(p)

SpecConc == Init /\ [][NextConc]_vars

\* ------------------------------------------- generate_new_schema, alone
\* The generator called directly: the store is one the runs above produce,
\* the base is any of its documents, the registry and the target are free.

StringA == <<[name |-> NameA, type |-> "string"]>>
IntegerB == <<[name |-> NameB, type |-> "integer"]>>

GenStores ==
  LET s2 == create_new_schema_version(InitStore, StringA, FALSE).store
      s3 == create_new_schema_version(s2, IntegerB \o StringA, FALSE).store
  IN {InitStore, s2, s3}

GenRegistries == Registries(RunNames, TypeNames \cup {"unknown"})

InitGen ==
  /\ store \in GenStores
  /\ writes = [v \in 1..MaxVersion + 1 |-> IF v \in DOMAIN store \ {1} THEN 1 ELSE 0]
  /\ last = NoRun
  /\ procs = [p \in Procs |-> Idle]
  /\ \E v \in DOMAIN store, reg \in GenRegistries, target \in 1..MaxTarget :
        call = [fn |-> "generate_new_schema", done |-> FALSE,
                base_schema |-> store[v].schema, tag_registry |-> reg,
                new_version |-> target, raised |-> "none", out |-> <<>>]

\* generate_new_schema(base_schema, tag_registry, new_version): it returns
\* the document; no path of it raises.
GenerateCall ==
  /\ call.fn = "generate_new_schema" /\ ~call.done
  /\ call' = [call EXCEPT
                !.done = TRUE,
                !.out = generate_new_schema(call.base_schema, call.tag_registry,
                                            call.new_version)]
  /\ UNCHANGED <<store, writes, last, procs>>

NextGen == GenerateCall

SpecGen == InitGen /\ [][NextGen]_vars

\* ------------------------------------------------- validate_submission
\* Draft 2020-12 validation of a submission's tags object against a schema
\* document: the keywords the documents above use.  A JSON value is a record
\* with its kind; an array carries its items, an object its members' values.

PatternMaxTail == 63

IsLower(c) == CharCode[c] >= CharCode["a"] /\ CharCode[c] <= CharCode["z"]
IsDigit(c) == CharCode[c] >= CharCode["0"] /\ CharCode[c] <= CharCode["0"] + 9

\* re.search(NamePattern, name).  "$" also matches before one final newline.
MatchesNamePattern(name) ==
  LET MatchesTo(n) ==
        /\ n >= 1
        /\ IsLower(name[1])
        /\ n - 1 <= PatternMaxTail
        /\ \A i \in 2..n : IsLower(name[i]) \/ IsDigit(name[i]) \/ name[i] = "_"
  IN \/ MatchesTo(Len(name))
     \/ Len(name) >= 1 /\ name[Len(name)] = "\n" /\ MatchesTo(Len(name) - 1)

\* The "type" keyword: an integer is also a number; a boolean is neither.
IsType(value, type) ==
  IF type = "number" THEN value.kind \in {"integer", "number"} ELSE value.kind = type

Resolve(root, ref) ==
  IF ref = TagScalarRef.ref THEN root.defs.tagScalar ELSE root.defs.tagValue

RECURSIVE Valid(_, _, _)
Valid(root, schema, value) ==
  /\ "ref" \in DOMAIN schema => Valid(root, Resolve(root, schema.ref), value)
  /\ "anyOf" \in DOMAIN schema =>
       \E i \in DOMAIN schema.anyOf : Valid(root, schema.anyOf[i], value)
  /\ "type" \in DOMAIN schema => IsType(value, schema.type)
  /\ ("items" \in DOMAIN schema /\ value.kind = "array") =>
       \A i \in DOMAIN value.items : Valid(root, schema.items, value.items[i])
  /\ ("additionalProperties" \in DOMAIN schema /\ value.kind = "object") =>
       \A i \in DOMAIN value.members :
         Valid(root, schema.additionalProperties, value.members[i])

\* The errors of one submission: propertyNames, properties and
\* additionalProperties of properties.tags, each error with its path.
validate_submission(data, schema) ==
  LET tags_schema == schema.properties.tags
      props == Get(tags_schema, "properties")
      tags == data.tags
      Declaration(name) == CHOOSE i \in DOMAIN props : props[i].name = name
  IN {[path |-> <<"tags">>, validator |-> "pattern", instance |-> tags[i].name] :
        i \in {j \in DOMAIN tags :
                 /\ "propertyNames" \in DOMAIN tags_schema
                 /\ ~MatchesNamePattern(tags[j].name)}}
     \cup
     {[path |-> <<"tags", tags[i].name>>, validator |-> "properties",
       instance |-> tags[i].name] :
        i \in {j \in DOMAIN tags :
                 /\ tags[j].name \in PropertyNames(props)
                 /\ ~Valid(schema, props[Declaration(tags[j].name)].schema, tags[j].value)}}
     \cup
     {[path |-> <<"tags", tags[i].name>>, validator |-> "additionalProperties",
       instance |-> tags[i].name] :
        i \in {j \in DOMAIN tags :
                 /\ tags[j].name \notin PropertyNames(props)
                 /\ "additionalProperties" \in DOMAIN tags_schema
                 /\ ~Valid(schema, tags_schema.additionalProperties, tags[j].value)}}

Scalars == {[kind |-> k] : k \in {"string", "integer", "number", "boolean", "null"}}
ArrayOf(items) == [kind |-> "array", items |-> items]
ObjectOf(members) == [kind |-> "object", members |-> members]
ScalarSeqs == {<<>>} \cup {<<x>> : x \in Scalars}
                     \cup {<<[kind |-> "integer"], [kind |-> "string"]>>}

ValValues ==
  Scalars \cup {ArrayOf(q) : q \in ScalarSeqs} \cup {ObjectOf(q) : q \in ScalarSeqs}
          \cup {ArrayOf(<<ArrayOf(<<>>)>>), ObjectOf(<<ObjectOf(<<>>)>>)}

NameChars == {"a", "z", "2", "_", "A", "-", "\n"}
LongName(n) == [i \in 1..n |-> "a"]
ValNames ==
  UNION {[1..n -> NameChars] : n \in 0..MaxNameLen}
    \cup {NameB, LongName(PatternMaxTail + 1), LongName(PatternMaxTail + 2)}

ArrayA == <<[name |-> NameA, type |-> "array"]>>

ValSchemas ==
  {st[get_latest_schema_version(st)].schema : st \in GenStores \ {InitStore}}
    \cup {generate_new_schema(SchemaV1, ArrayA, 1 + 1)}

InitVal ==
  /\ store = InitStore
  /\ writes = [v \in 1..MaxVersion + 1 |-> 0]
  /\ last = NoRun
  /\ procs = [p \in Procs |-> Idle]
  /\ \E schema \in ValSchemas, name \in ValNames, value \in ValValues :
        call = [fn |-> "validate_submission", done |-> FALSE, schema |-> schema,
                data |-> [tags |-> <<[name |-> name, value |-> value]>>],
                errors |-> {}]

ValidateCall ==
  /\ call.fn = "validate_submission" /\ ~call.done
  /\ call' = [call EXCEPT !.done = TRUE,
                          !.errors = validate_submission(call.data, call.schema)]
  /\ UNCHANGED <<store, writes, last, procs>>

NextVal == ValidateCall

SpecVal == InitVal /\ [][NextVal]_vars

\* ------------------------------------------ extract_json_from_issue_body
\* The issue body is a sequence of tokens: the literal texts the three
\* patterns name, whitespace, brackets and "x" for any other character.

Header == "### Submission JSON"
Hashes == "###"
\* The three backquotes that open or close a code block.
Fence == "<fence>"
Whitespace == {"\n", " "}
Openers == {"[", "{"}
Closers == {"]", "}"}

Min(S) == CHOOSE m \in S : \A x \in S : m <= x

\* Where \s* ends: the first index >= i that holds no whitespace (Len + 1 if none).
WsEnd(body, i) ==
  Min({k \in i..(Len(body) + 1) : k = Len(body) + 1 \/ body[k] \notin Whitespace})

\* str.strip()
RECURSIVE Strip(_)
Strip(text) ==
  IF text = <<>> THEN <<>>
  ELSE IF Head(text) \in Whitespace THEN Strip(Tail(text))
  ELSE IF text[Len(text)] \in Whitespace THEN Strip(SubSeq(text, 1, Len(text) - 1))
  ELSE text

NoMatch == [found |-> FALSE, group |-> <<>>]

\* Where "\n\s*<fence>" matches at or after p.
FenceClosers(body, p) ==
  {q \in p..Len(body) :
     /\ body[q] = "\n"
     /\ WsEnd(body, q + 1) <= Len(body)
     /\ body[WsEnd(body, q + 1)] = Fence}

\* pattern_codeblock matched at i:
\*   ### Submission JSON\s*\n\s*<fence>(?:json)?\s*\n([\s\S]*?)\n\s*<fence>
\* The greedy \s* before the group gives way newline by newline, last first;
\* the lazy group ends at the first closer.
CodeblockAt(body, i) ==
  LET f == WsEnd(body, i + 1)
  IN IF ~(body[i] = Header /\ f <= Len(body) /\ (\E k \in (i + 1)..(f - 1) : body[k] = "\n"))
       THEN NoMatch
     ELSE IF body[f] # Fence THEN NoMatch
     ELSE LET j == IF f + 1 <= Len(body) /\ body[f + 1] = "json" THEN f + 2 ELSE f + 1
              e == WsEnd(body, j)
              good == {nl \in j..(e - 1) :
                         body[nl] = "\n" /\ FenceClosers(body, nl + 1) # {}}
          IN IF good = {} THEN NoMatch
             ELSE LET p == Max(good) + 1
                  IN [found |-> TRUE,
                      group |-> SubSeq(body, p, Min(FenceClosers(body, p)) - 1)]

\* The lookahead (?=\n###|\n\n###|$) at index k, the one after the group.
RawLookahead(body, k) ==
  LET HashesAt(m) == m <= Len(body) /\ body[m] \in {Hashes, Header}
      NewlineAt(m) == m <= Len(body) /\ body[m] = "\n"
  IN \/ NewlineAt(k) /\ HashesAt(k + 1)
     \/ NewlineAt(k) /\ NewlineAt(k + 1) /\ HashesAt(k + 2)
     \/ k = Len(body) + 1
     \/ k = Len(body) /\ NewlineAt(k)

\* pattern_raw matched at i:
\*   ### Submission JSON\s*\n\s*([\[{][\s\S]*?[\]}])(?=\n###|\n\n###|$)
RawAt(body, i) ==
  LET o == WsEnd(body, i + 1)
  IN IF ~(body[i] = Header /\ o <= Len(body) /\ (\E k \in (i + 1)..(o - 1) : body[k] = "\n"))
       THEN NoMatch
     ELSE IF body[o] \notin Openers THEN NoMatch
     ELSE LET ends == {e \in (o + 1)..Len(body) :
                         body[e] \in Closers /\ RawLookahead(body, e + 1)}
          IN IF ends = {} THEN NoMatch
             ELSE [found |-> TRUE, group |-> SubSeq(body, o, Min(ends))]

\* re.search(pattern_codeblock, body): the match at the leftmost index that has one.
SearchCodeblock(body) ==
  LET hits == {i \in 1..Len(body) : CodeblockAt(body, i).found}
  IN IF hits = {} THEN NoMatch ELSE CodeblockAt(body, Min(hits))

\* re.search(pattern_raw, body)
SearchRaw(body) ==
  LET hits == {i \in 1..Len(body) : RawAt(body, i).found}
  IN IF hits = {} THEN NoMatch ELSE RawAt(body, Min(hits))

\* The loop over re.finditer(pattern_any, body) from an index on: each
\* match runs from the next opener that has a closer after it to the first such
\* closer; the first candidate whose two ends pair up is returned.
RECURSIVE AnyFrom(_, _)
AnyFrom(body, from) ==
  LET opens == {o \in from..Len(body) :
                  body[o] \in Openers /\ \E e \in (o + 1)..Len(body) : body[e] \in Closers}
  IN IF opens = {} THEN NoMatch
     ELSE LET o == Min(opens)
              e == Min({k \in (o + 1)..Len(body) : body[k] \in Closers})
              candidate == Strip(SubSeq(body, o, e))
          IN IF \/ Head(candidate) = "{" /\ candidate[Len(candidate)] = "}"
                \/ Head(candidate) = "[" /\ candidate[Len(candidate)] = "]"
               THEN [found |-> TRUE, group |-> candidate]
             ELSE AnyFrom(body, e + 1)

NoneStr == [is_none |-> TRUE, text |-> <<>>, via |-> "none"]
Str(text, via) == [is_none |-> FALSE, text |-> text, via |-> via]

extract_json_from_issue_body(body) ==
  LET codeblock == SearchCodeblock(body)
      raw == SearchRaw(body)
      any == AnyFrom(body, 1)
  IN IF codeblock.found THEN Str(Strip(codeblock.group), "codeblock")
     ELSE IF raw.found THEN Str(Strip(raw.group), "raw")
     ELSE IF any.found THEN Str(any.group, "any")
     ELSE NoneStr

\* The bodies: up to MaxLines lines of these kinds, joined by newlines, with
\* or without a final newline.
LineKinds ==
  {<<Header>>, <<Fence>>, <<Fence, "json">>, <<>>, <<"x">>, <<Hashes, "x">>,
   <<"{", "x", "}">>, <<" ", "[", "x", "]", " ">>, <<"{", "x", "]", "x">>}

RECURSIVE Join(_)
Join(lines) ==
  IF lines = <<>> THEN <<>>
  ELSE IF Len(lines) = 1 THEN lines[1]
  ELSE lines[1] \o <<"\n">> \o Join(Tail(lines))

Bodies(max_lines) ==
  LET joined == {Join(ls) : ls \in UNION {[1..n -> LineKinds] : n \in 1..max_lines}}
  IN joined \cup {b \o <<"\n">> : b \in joined}

InitExtract ==
  /\ store = InitStore
  /\ writes = [v \in 1..MaxVersion + 1 |-> 0]
  /\ last = NoRun
  /\ procs = [p \in Procs |-> Idle]
  /\ \E body \in Bodies(MaxLines) :
        call = [fn |-> "extract_json_from_issue_body", done |-> FALSE,
                body |-> body, out |-> NoneStr]

ExtractCall ==
  /\ call.fn = "extract_json_from_issue_body" /\ ~call.done
  /\ call' = [call EXCEPT !.done = TRUE,
                          !.out = extract_json_from_issue_body(call.body)]
  /\ UNCHANGED <<store, writes, last, procs>>

NextExtract == ExtractCall

SpecExtract == InitExtract /\ [][NextExtract]_vars

\* ----------------------------------------------------------------- claims

\* The tag names a schema document declares in properties.tags.properties.
Declared(schema) ==
  IF "properties" \in DOMAIN schema.properties.tags
    THEN {schema.properties.tags.properties[i].name :
            i \in DOMAIN schema.properties.tags.properties}
    ELSE {}

Latest == CHOOSE n \in DOMAIN store : \A v \in DOMAIN store : v <= n

C2_AtMostOnePublishes == \A v \in DOMAIN writes : writes[v] <= 1

\* C3: a persisted version is never changed or removed by a later step.
C3_PersistedImmutable ==
  [][\A v \in DOMAIN store : v \in DOMAIN store' /\ store'[v] = store[v]]_vars

C10_RegenAgainstLatest ==
  (last.op = "regen" /\ last.wrote) =>
    RegistryNames(last.reg) \ Declared(store[last.latest_before].schema) # {}

\* C4: the generator produces a document only for target = latest + 1 and
\* refuses every other target with VersionError.
C4_RefusesWrongTarget ==
  (call.fn = "generate_new_schema" /\ call.done) =>
    IF call.new_version = Latest + 1
      THEN call.raised = "none" /\ call.out # <<>>
      ELSE call.raised = "VersionError" /\ call.out = <<>>

\* The fragment the claim gives for each of the seven type names.
C5_Fragment(type_name) ==
  IF type_name \in {"string", "integer", "number", "boolean", "null"}
    THEN [type |-> type_name]
  ELSE IF type_name = "array"
    THEN [type |-> "array", items |-> [ref |-> "#/$defs/tagScalar"]]
  ELSE [type |-> "object", additionalProperties |-> [ref |-> "#/$defs/tagScalar"]]

\* C5: the generated document declares exactly the registry's tag names, one
\* entry each (tags of the base that the registry lacks are gone), and each
\* entry is the fragment of the tag's registry type.
C5_PropertiesReplaced ==
  (call.fn = "generate_new_schema" /\ call.done) =>
    LET props == call.out.properties.tags.properties
        reg == call.tag_registry
    IN /\ Len(props) = Len(reg)
       /\ {props[i].name : i \in DOMAIN props} = {reg[i].name : i \in DOMAIN reg}
       /\ \A i \in DOMAIN props, j \in DOMAIN reg :
            (props[i].name = reg[j].name /\ reg[j].type \in TypeNames) =>
              props[i].schema = C5_Fragment(reg[j].type)

C5_Witness ==
  /\ call.fn = "generate_new_schema" /\ call.done
  /\ NameA \in Declared(call.base_schema)
  /\ call.tag_registry = <<[name |-> NameB, type |-> "array"]>>
  /\ Declared(call.out) = {NameB}

\* A value of the data model: a scalar, an array of scalars or an object of scalars.
C6_DataModelValue(value) ==
  \/ value \in Scalars
  \/ value.kind = "array" /\ \A i \in DOMAIN value.items : value.items[i] \in Scalars
  \/ value.kind = "object" /\ \A i \in DOMAIN value.members : value.members[i] \in Scalars

\* C6 as stated: a tag the schema does not declare, whatever its name, with
\* any such value, validates with no error.
C6_AnyUndeclaredTagValidates ==
  (call.fn = "validate_submission" /\ call.done) =>
    \A i \in DOMAIN call.data.tags :
      (/\ call.data.tags[i].name \notin Declared(call.schema)
       /\ C6_DataModelValue(call.data.tags[i].value)) => call.errors = {}

\* A lowercase letter followed by at most 63 lowercase letters, digits or underscores.
C6_WellFormedName(name) ==
  /\ Len(name) \in 1..(PatternMaxTail + 1)
  /\ name[1] \in {"a", "b", "z"}
  /\ \A i \in 2..Len(name) : name[i] \in {"a", "b", "z", "0", "2", "_"}

\* C6 amended: an undeclared tag whose name is a lowercase letter followed by
\* at most 63 lowercase letters, digits or underscores, with a scalar, array
\* of scalars or object of scalars as value, validates with no error.
C6_WellFormedUndeclaredTagValidates ==
  (call.fn = "validate_submission" /\ call.done) =>
    \A i \in DOMAIN call.data.tags :
      (/\ call.data.tags[i].name \notin Declared(call.schema)
       /\ C6_WellFormedName(call.data.tags[i].name)
       /\ C6_DataModelValue(call.data.tags[i].value)) => call.errors = {}

C6_Witness ==
  /\ call.fn = "validate_submission" /\ call.done
  /\ call.schema.title.v = MaxVersion /\ Declared(call.schema) = {NameA, NameB}
  /\ call.data.tags[1].name = <<"z", "2">>
  /\ call.data.tags[1].value = ArrayOf(<<[kind |-> "integer"], [kind |-> "string"]>>)
  /\ call.errors = {}

\* A line that holds a fence after nothing but spaces starts at index k.
C8_FenceLine(body, k) ==
  /\ k <= Len(body)
  /\ k = 1 \/ body[k - 1] = "\n"
  /\ \E f \in k..Len(body) :
       body[f] = Fence /\ \A m \in k..(f - 1) : body[m] = " "

\* The opening fences under a header at i: blank space with a line break lies
\* between the header and the fence.
C8_OpeningFences(body, i) ==
  {f \in (i + 1)..Len(body) :
     /\ body[f] = Fence
     /\ \A m \in (i + 1)..(f - 1) : body[m] \in {"\n", " "}
     /\ \E m \in (i + 1)..(f - 1) : body[m] = "\n"}

\* Where the opening fence line ends: after the fence, "json" or nothing, spaces.
C8_OpeningLineEnds(body, f) ==
  {o \in (f + 1)..Len(body) :
     /\ body[o] = "\n"
     /\ \A m \in (f + 1)..(o - 1) : body[m] = " " \/ (m = f + 1 /\ body[m] = "json")}

\* The fenced blocks under the header, each as the place of its content: after
\* the opening fence line come at least one content line and the closing fence
\* line, which is the first fence line after the opening one.
C8_Blocks(body) ==
  UNION {UNION {UNION {
    LET closing == {k \in (o + 1)..Len(body) : C8_FenceLine(body, k)}
    IN IF closing = {} \/ (o + 1) \in closing THEN {}
       ELSE {[first |-> o + 1,
              last |-> (CHOOSE k \in closing : \A k2 \in closing : k <= k2) - 2]}
    : o \in C8_OpeningLineEnds(body, f)}
    : f \in C8_OpeningFences(body, i)}
    : i \in {h \in 1..Len(body) : body[h] = Header}}

\* C8: for a body with a fenced block under the Submission JSON header the
\* result is that block's content (surrounding whitespace aside), whatever
\* else the body holds.
C8_FencedContentWins ==
  (call.fn = "extract_json_from_issue_body" /\ call.done /\ C8_Blocks(call.body) # {}) =>
    \E blk \in C8_Blocks(call.body) :
      /\ ~call.out.is_none
      /\ call.out.text = Strip(SubSeq(call.body, blk.first, blk.last))

====
